---- MODULE Spec2Model ----
(***************************************************************************)
(* Model of vagrant/tournament/tournament.py: a Swiss-system tournament    *)
(* kept in a PostgreSQL database (tables players and matches, view         *)
(* standings).  Every function of the module opens a connection, runs one  *)
(* statement, commits (writers) or fetches (readers) and returns; each is  *)
(* one action here.  The tables and the view are created by the database   *)
(* schema, which tournament.py does not contain; they are modelled from    *)
(* the data model and the standings contract of the specification.         *)
(***************************************************************************)
EXTENDS Integers, Sequences, FiniteSets, TLC

\* ---------------------------------------------------------------- bounds
MaxId == 4          \* registerPlayer is called at most MaxId times
MaxMatches == 2     \* at most MaxMatches rows are ever in table matches

\* names handed to registerPlayer; the second holds a character that
\* bleach.clean rewrites
RawNames == {"Al", "Q&A"}

VARIABLES
    players,        \* table players: set of rows [id, name]
    matches,        \* table matches: rows [winner_id, loser_id] in insertion order
    nextId,         \* next value of the serial sequence behind players.id
    op,             \* name of the function that ran last
    err,            \* "none", or the exception the last call raised
    ret             \* value the last call returned (<<>> for None)

vars == <<players, matches, nextId, op, err, ret>>

\* ------------------------------------------------------- schema (database)
Ids(ps) == {p.id : p \in ps}

\* matches.winner_id and matches.loser_id reference players(id)
ForeignKeyOk(ps, ms) ==
    \A i \in DOMAIN ms : ms[i].winner_id \in Ids(ps) /\ ms[i].loser_id \in Ids(ps)

\* wins column of the view: matches where the player is the winner
WinsOf(id, ms) == Cardinality({i \in DOMAIN ms : ms[i].winner_id = id})

PlayedOfLossesOnly(id, ms) == Cardinality({i \in DOMAIN ms : ms[i].loser_id = id})

\* matches column of the view: matches where the player is winner or loser
PlayedOf(id, ms) ==
    Cardinality({i \in DOMAIN ms : ms[i].winner_id = id \/ ms[i].loser_id = id})

StandingsRow(p, ms) ==
    [id |-> p.id, name |-> p.name, wins |-> WinsOf(p.id, ms), matches |-> PlayedOf(p.id, ms)]

\* row a comes before row b: more wins first, then lower id
Before(a, b) == a.wins > b.wins \/ (a.wins = b.wins /\ a.id < b.id)

BeforeById(a, b) == a.id < b.id

RECURSIVE SortRows(_)
SortRows(rows) ==
    IF rows = {} THEN <<>>
    ELSE LET first == CHOOSE r \in rows : \A s \in rows \ {r} : Before(r, s)
         IN  <<first>> \o SortRows(rows \ {first})

RECURSIVE SortRowsById(_)
SortRowsById(rows) ==
    IF rows = {} THEN <<>>
    ELSE LET first == CHOOSE r \in rows : \A s \in rows \ {r} : BeforeById(r, s)
         IN  <<first>> \o SortRowsById(rows \ {first})

standingsUnranked(ps, ms) == SortRowsById({StandingsRow(p, ms) : p \in ps})

\* view standings: one row per player (left join), ranked by wins descending
standings(ps, ms) == SortRows({StandingsRow(p, ms) : p \in ps})

\* ------------------------------------------------------------- helpers
\* bleach.clean: escapes a bare ampersand, leaves plain text alone
Clean(name) == IF name = "Q&A" THEN "Q&amp;A" ELSE name

CountNames(ps) == Cardinality({p.name : p \in ps})

\* select count(id) from players
CountIds(ps) == Cardinality({p.id : p \in ps})

MinWins(rows) == {r \in rows : \A s \in rows : r.wins <= s.wins}

RECURSIVE OrderByWinsAsc(_)
OrderByWinsAsc(rows) ==
    IF rows = {} THEN {<<>>}
    ELSE UNION {{<<r>> \o rest : rest \in OrderByWinsAsc(rows \ {r})} : r \in MinWins(rows)}

\* rows that may come first under "order by wins desc"
MaxWins(rows) == {r \in rows : \A s \in rows : r.wins >= s.wins}

\* "order by wins desc" over the rows of the view: every arrangement of the
\* rows with wins non-increasing; SQL leaves the order of rows with equal
\* wins open
RECURSIVE OrderByWinsDesc(_)
OrderByWinsDesc(rows) ==
    IF rows = {} THEN {<<>>}
    ELSE UNION {{<<r>> \o rest : rest \in OrderByWinsDesc(rows \ {r})} : r \in MaxWins(rows)}

Range(s) == {s[i] : i \in DOMAIN s}

Pair(player1, player2) == <<player1.id, player1.name, player2.id, player2.name>>

Raised(e) == [err |-> e, value |-> <<>>]

Returned(v) == [err |-> "none", value |-> v]

RECURSIVE PairLoopStepOne(_, _, _)
PairLoopStepOne(rows, counter, result) ==
    IF counter >= Len(rows) THEN Returned(result)
    ELSE IF counter + 1 >= Len(rows) THEN Raised("IndexError")
    ELSE PairLoopStepOne(rows, counter + 1,
                  Append(result, Pair(rows[counter + 1], rows[counter + 2])))

RECURSIVE PairLoopGuarded(_, _, _)
PairLoopGuarded(rows, counter, result) ==
    IF counter + 1 >= Len(rows) THEN Returned(result)
    ELSE PairLoopGuarded(rows, counter + 2,
                  Append(result, Pair(rows[counter + 1], rows[counter + 2])))

RECURSIVE PairLoopOffByOne(_, _, _)
PairLoopOffByOne(rows, counter, result) ==
    IF counter >= Len(rows) + 1 THEN Returned(result)
    ELSE IF counter + 1 >= Len(rows) THEN Raised("IndexError")
    ELSE PairLoopOffByOne(rows, counter + 2,
                  Append(result, Pair(rows[counter + 1], rows[counter + 2])))

\* for counter in range(0, len(standings), 2): the list index counter of the
\* code is the sequence index counter + 1 here; standings[counter + 1] past
\* the end of the list raises IndexError and the function returns nothing
RECURSIVE PairLoop(_, _, _)
PairLoop(rows, counter, result) ==
    IF counter >= Len(rows) THEN Returned(result)
    ELSE IF counter + 1 >= Len(rows) THEN Raised("IndexError")
    ELSE PairLoop(rows, counter + 2,
                  Append(result, Pair(rows[counter + 1], rows[counter + 2])))

\* ---------------------------------------------------------------- Init
Init ==
    /\ players = {}
    /\ matches = <<>>
    /\ nextId = 1
    /\ op = "init"
    /\ err = "none"
    /\ ret = <<>>

\* -------------------------------------------------------------- actions
deleteMatchesWrongTable ==
    /\ op' = "deleteMatches"
    /\ err' = "none"
    /\ players' = {}
    /\ ret' = <<>>
    /\ UNCHANGED <<matches, nextId>>

\* delete from matches; commit
deleteMatches ==
    /\ op' = "deleteMatches"
    /\ err' = "none"
    /\ matches' = <<>>
    /\ ret' = <<>>
    /\ UNCHANGED <<players, nextId>>

deletePlayersNoForeignKey ==
    /\ op' = "deletePlayers"
    /\ err' = "none"
    /\ players' = {}
    /\ ret' = <<>>
    /\ UNCHANGED <<matches, nextId>>

\* delete from players; commit.  The statement is rejected while a match
\* row still references a player; the exception leaves the store as it was
deletePlayers ==
    /\ op' = "deletePlayers"
    /\ ret' = <<>>
    /\ IF ForeignKeyOk({}, matches)
       THEN /\ players' = {}
            /\ err' = "none"
       ELSE /\ err' = "IntegrityError"
            /\ UNCHANGED players
    /\ UNCHANGED <<matches, nextId>>

\* select count(id) from players
countPlayers ==
    /\ op' = "countPlayers"
    /\ err' = "none"
    /\ ret' = CountIds(players)
    /\ UNCHANGED <<players, matches, nextId>>

\* insert into players (name) values (bleach.clean(name)); commit
registerPlayer ==
    /\ nextId <= MaxId
    /\ \E name \in RawNames :
           players' = players \cup {[id |-> nextId, name |-> Clean(name)]}
    /\ nextId' = nextId + 1
    /\ op' = "registerPlayer"
    /\ err' = "none"
    /\ ret' = <<>>
    /\ UNCHANGED matches

\* select * from standings; fetchall
playerStandings ==
    /\ op' = "playerStandings"
    /\ err' = "none"
    /\ ret' = standings(players, matches)
    /\ UNCHANGED <<players, matches, nextId>>

\* insert into matches (winner_id, loser_id) values (winner, loser); commit
reportMatch ==
    /\ Len(matches) < MaxMatches
    /\ \E winner \in 1..MaxId, loser \in 1..MaxId :
         LET row == [winner_id |-> winner, loser_id |-> loser] IN
         IF ForeignKeyOk(players, <<row>>)
         THEN /\ matches' = Append(matches, row)
              /\ err' = "none"
         ELSE /\ err' = "IntegrityError"
              /\ UNCHANGED matches
    /\ op' = "reportMatch"
    /\ ret' = <<>>
    /\ UNCHANGED <<players, nextId>>

\* select ... from standings order by wins desc; fetchall; pair the rows up
swissPairings ==
    /\ op' = "swissPairings"
    /\ \E fetched \in OrderByWinsDesc(Range(standings(players, matches))) :
         LET out == PairLoop(fetched, 0, <<>>) IN
         /\ err' = out.err
         /\ ret' = out.value
    /\ UNCHANGED <<players, matches, nextId>>

Next ==
    \/ deleteMatches
    \/ deletePlayers
    \/ countPlayers
    \/ registerPlayer
    \/ playerStandings
    \/ reportMatch
    \/ swissPairings

Spec == Init /\ [][Next]_vars

\* ------------------------------------------------------------ properties
\* ids of a pairing list in output order: id1, id2 of the first pairing,
\* id1, id2 of the second, ...
PairedIds(pairings) ==
    [i \in 1..(2 * Len(pairings)) |->
        IF i % 2 = 1 THEN pairings[(i + 1) \div 2][1] ELSE pairings[i \div 2][3]]

Occurrences(id, seq) == Cardinality({i \in DOMAIN seq : seq[i] = id})

RECURSIVE SumWins(_)
SumWins(rows) == IF rows = <<>> THEN 0 ELSE Head(rows).wins + SumWins(Tail(rows))

EvenRoster == CountIds(players) % 2 = 0

\* C1: with an even number of registered players swissPairings returns
\* (number of players)/2 pairings, every registered id is in exactly one
\* pairing, and no pairing has the same id on both sides.
C1_EvenRosterPairsEveryone ==
    (op = "swissPairings" /\ EvenRoster) =>
        /\ err = "none"
        /\ 2 * Len(ret) = CountIds(players)
        /\ \A id \in Ids(players) : Occurrences(id, PairedIds(ret)) = 1
        /\ \A k \in DOMAIN ret : ret[k][1] # ret[k][3]

C1_Witness ==
    /\ op = "swissPairings"
    /\ CountIds(players) = 4
    /\ Len(matches) = 2
    /\ err = "none"
    /\ Len(ret) = 2

\* C2: with an odd number of registered players (one player included)
\* swissPairings raises an exception to its caller and returns no pairing
\* list, so no list that leaves a player out is ever returned.
C2_OddRosterRaises ==
    (op = "swissPairings" /\ ~EvenRoster) => (err = "IndexError" /\ ret = <<>>)

C2_Witness ==
    /\ op = "swissPairings"
    /\ CountIds(players) = 3
    /\ err = "IndexError"

\* C3: the k-th pairing holds the players at ranks 2k-1 and 2k of the
\* standings ordered by descending wins: the i-th id of the output has the
\* wins of the i-th ranked row, each row carries the name of its id, and
\* wins never increase along the output.
C3_PairsAdjacentRanks ==
    (op = "swissPairings" /\ err = "none") =>
        LET ids == PairedIds(ret)
            ranked == standings(players, matches)
        IN  /\ Len(ids) = Len(ranked)
            /\ \A i \in DOMAIN ids : WinsOf(ids[i], matches) = ranked[i].wins
            /\ \A i \in 1..(Len(ids) - 1) :
                   WinsOf(ids[i], matches) >= WinsOf(ids[i + 1], matches)
            /\ \A k \in DOMAIN ret :
                   /\ [id |-> ret[k][1], name |-> ret[k][2]] \in players
                   /\ [id |-> ret[k][3], name |-> ret[k][4]] \in players

C3_Witness ==
    /\ op = "swissPairings"
    /\ err = "none"
    /\ Len(ret) = 2
    /\ WinsOf(ret[1][1], matches) = 1
    /\ WinsOf(ret[1][3], matches) = 1
    /\ WinsOf(ret[2][1], matches) = 0
    /\ ret[1][1] > ret[2][1]

\* C4: the rows playerStandings returns are ranked by descending wins: each
\* row has at least the wins of the row after it.
C4_StandingsRankedByWins ==
    op = "playerStandings" =>
        \A i \in 1..(Len(ret) - 1) : ret[i].wins >= ret[i + 1].wins

C4_Witness ==
    /\ op = "playerStandings"
    /\ Len(ret) >= 3
    /\ ret[1].wins > ret[2].wins
    /\ ret[1].id > ret[2].id

C6_WinsWithinMatches ==
    \A i \in DOMAIN standings(players, matches) :
        LET row == standings(players, matches)[i]
        IN  0 <= row.wins /\ row.wins <= row.matches

C6_Witness ==
    \E i \in DOMAIN standings(players, matches) :
        LET row == standings(players, matches)[i]
        IN  row.wins = 1 /\ row.matches = 2

\* C7: playerStandings returns exactly one row per registered player, as
\* many rows as countPlayers counts, and a player in no recorded match has
\* a row with wins = 0 and matches = 0.
C7_OneRowPerPlayer ==
    op = "playerStandings" =>
        /\ Len(ret) = CountIds(players)
        /\ \A p \in players :
               Cardinality({i \in DOMAIN ret : ret[i].id = p.id /\ ret[i].name = p.name}) = 1
        /\ \A i \in DOMAIN ret :
               (\A m \in DOMAIN matches :
                    matches[m].winner_id # ret[i].id /\ matches[m].loser_id # ret[i].id)
               => (ret[i].wins = 0 /\ ret[i].matches = 0)

C7_Witness ==
    /\ op = "playerStandings"
    /\ Len(ret) = 3
    /\ Len(matches) > 0
    /\ ret[1].name = ret[2].name
    /\ \E i \in DOMAIN ret : ret[i].wins = 0 /\ ret[i].matches = 0

\* C8: with no registered player playerStandings returns the empty sequence
\* and swissPairings returns the empty sequence without raising.
C8_EmptyRoster ==
    (players = {} /\ op \in {"playerStandings", "swissPairings"}) =>
        (err = "none" /\ ret = <<>>)

C8_Witness ==
    /\ players = {}
    /\ nextId > 1
    /\ op = "swissPairings"
    /\ err = "none"
    /\ ret = <<>>

\* C9: standings are deterministic, ties included: the order swissPairings
\* pairs over is the order playerStandings reports for the same store, so
\* the pairings are the consecutive pairs of the playerStandings rows.
C9_PairsOverReportedOrder ==
    (op = "swissPairings" /\ err = "none") =>
        ret = PairLoop(standings(players, matches), 0, <<>>).value

\* C10: registerPlayer adds exactly one player with a new id and leaves
\* matches alone; a reportMatch that returns adds exactly one match row at
\* the end and leaves players alone; a player row goes away only in
\* deletePlayers and a match row only in deleteMatches; countPlayers,
\* playerStandings and swissPairings change neither table.
C10_Frame ==
    [][ /\ op' = "registerPlayer" =>
              /\ matches' = matches
              /\ players \subseteq players'
              /\ Cardinality(players' \ players) = 1
              /\ \A p \in players' \ players : p.id \notin Ids(players)
        /\ (op' = "reportMatch" /\ err' = "none") =>
              /\ players' = players
              /\ Len(matches') = Len(matches) + 1
              /\ SubSeq(matches', 1, Len(matches)) = matches
        /\ ~(players \subseteq players') => op' = "deletePlayers"
        /\ (\/ Len(matches') < Len(matches)
            \/ SubSeq(matches', 1, Len(matches)) # matches) => op' = "deleteMatches"
        /\ op' \in {"countPlayers", "playerStandings", "swissPairings"} =>
              (players' = players /\ matches' = matches)
      ]_vars

C10_Witness ==
    /\ op = "reportMatch"
    /\ err = "none"
    /\ Len(matches) = 2
    /\ CountIds(players) = 2
    /\ nextId > 3

====
